---- MODULE Spec2Model ----
(***************************************************************************)
(* Connection lifecycle of TAWebsocket (src/src/lib/TAWebsocket.ts).       *)
(*                                                                         *)
(* The client owns a handle `ws` to a W3C websocket, registers the         *)
(* onopen / onmessage / onclose callbacks on every transport it creates,   *)
(* arms a handshake timer per init() and a reconnect timer per close       *)
(* event.  Everything runs on one event loop: every callback is one        *)
(* atomic step.  A callback is written as a function from the state of     *)
(* the object (a record) to the state after it, built by composing the     *)
(* statements of the callback in source order; `trace` keeps the effects   *)
(* of the last callback in the order they happened.                        *)
(***************************************************************************)
EXTENDS Integers, Sequences, FiniteSets

\* ----------------------------------------------------------------- bounds
\* Transports ever created in one run (new webSock(...) calls).
MaxTransports == 3
\* Largest autoReconnectMaxRetries the configuration is drawn from.
MaxRetries == 1
\* Largest handshakeTimeout (abstract ms; 0 = disabled) in a configuration.
MaxHandshakeTimeout == 1

\* loadSong and playSong calls in one run.
MaxCalls == 2

Transports == 1..MaxTransports

\* ------------------------------------------------------------ state
VARIABLES
    config,             \* Config resolved by loadConfig
    ws,                 \* this.ws: a transport id, 0 = null
    readyState,         \* readyState of every transport ("NONE": not created)
    connectTimeout,     \* the connectTimeout timer of the init() that made t
    reconnectTimers,    \* pending setTimeout(() => this.init(), interval)
    reconnectAttempts,  \* this.reconnectAttempts
    isConnected,        \* this.taClient.isConnected
    nextId,             \* id the next new webSock(...) gets
    connectReqs,        \* Connect requests transmitted on each transport
    event,              \* history: the callback that ran last, and what it saw
    trace,              \* history: its effects, in order
    closeEvents,        \* history: close events delivered so far
    scheduled,          \* history: reconnect timers scheduled so far
    handshakeDone,      \* history: transports that delivered a Success Connect
                        \*   response with a non-empty self_guid
    userClosed,         \* history: transports closed by a close() call
    outbox,             \* history: the packets the last callback handed to
                        \*   the transmit function, in order
    threw,              \* history: whether the last callback ended by a throw
    returned,           \* history: what the last call returned ("none")
    match,              \* the caller's Models.Match object
    pending,            \* pending 500 ms timers of loadSong and playSong
    nCalls              \* loadSong and playSong calls made so far

vars == <<config, ws, readyState, connectTimeout, reconnectTimers,
          reconnectAttempts, isConnected, nextId, connectReqs, event, trace,
          closeEvents, scheduled, handshakeDone, userClosed, outbox, threw,
          returned, match, pending, nCalls>>

\* The arguments of a call, kept with the event: the `from` the caller set
\* on a packet, a list of players, a list of ids.
NoArg == [from |-> "none", players |-> <<>>, ids |-> {}]

\* The object's state as one record, threaded through the callbacks.
Cur ==
    [config |-> config, ws |-> ws, readyState |-> readyState,
     connectTimeout |-> connectTimeout, reconnectTimers |-> reconnectTimers,
     reconnectAttempts |-> reconnectAttempts, isConnected |-> isConnected,
     nextId |-> nextId, connectReqs |-> connectReqs, trace |-> <<>>,
     closeEvents |-> closeEvents, scheduled |-> scheduled,
     handshakeDone |-> handshakeDone, userClosed |-> userClosed,
     outbox |-> <<>>, threw |-> FALSE, returned |-> "none",
     match |-> match, pending |-> pending, nCalls |-> nCalls,
     arg |-> NoArg]

\* One effect of a callback: what was done, on which transport (0: none),
\* and the value of isConnected right after it.
Eff(s, op, t) == [op |-> op, t |-> t, conn |-> s.isConnected]
Log(s, op, t) == [s EXCEPT !.trace = Append(@, Eff(s, op, t))]

\* ------------------------------------------------------------ frames
\* What a transport can deliver to onmessage: a text frame, a binary frame
\* that fails to decode, or a binary frame that decodes to a packet.
\* Of a packet only the fields handlePacket reads are kept: whether it
\* holds response.connect, whether response.type is Success, whether
\* response.connect.self_guid is non-empty (one packet stands for all
\* those without response.connect).
NoFrame == [binary |-> FALSE, decodes |-> FALSE, connect |-> FALSE,
            success |-> FALSE, selfGuid |-> FALSE]
Frames ==
    {NoFrame}
    \cup {[NoFrame EXCEPT !.binary = TRUE]}
    \cup {f \in [binary : {TRUE}, decodes : {TRUE}, connect : BOOLEAN,
                  success : BOOLEAN, selfGuid : BOOLEAN] :
              ~f.connect => (f.success /\ ~f.selfGuid)}

HandshakeFrame(f) ==
    f.binary /\ f.decodes /\ f.connect /\ f.success /\ f.selfGuid

\* --------------------------------------------------------- configuration
DefaultConfig ==
    [autoReconnect |-> TRUE, autoReconnectMaxRetries |-> -1,
     handshakeTimeout |-> 0, autoInit |-> TRUE, customSend |-> FALSE,
     nativeSocket |-> FALSE]

\* loadConfig: the defaults overlaid with the caller's options.
\* customSend: whether options.sendToSocket replaces the default transmit
\* function; the connection lifecycle is explored with the default one.
\* nativeSocket is no option: it says which implementation the import of
\* w3cwebsocket resolves to in the build, the package's own (FALSE) or the
\* browser's WebSocket (TRUE); they differ in send() on a closing socket.
Configs ==
    [autoReconnect : BOOLEAN,
     autoReconnectMaxRetries : (-1)..MaxRetries,
     handshakeTimeout : 0..MaxHandshakeTimeout,
     autoInit : BOOLEAN,
     customSend : {FALSE},
     nativeSocket : {FALSE}]

\* ------------------------------------------------------------ StateStore
\* taClient (./client) is not part of the sources; its contract:
\* reset() leaves the client not connected, init() leaves it connected,
\* handlePacket() applies a packet to the mirrored state.
StoreReset(s) == Log([s EXCEPT !.isConnected = FALSE], "reset", 0)
StoreInit(s) == Log([s EXCEPT !.isConnected = TRUE], "init", 0)
StoreHandlePacket(s) == Log(s, "handlePacket", 0)

\* ------------------------------------------------------------ transport
Live(rs) == rs \in {"CONNECTING", "OPEN"}

\* webSock.close(): a connecting or open socket starts closing; the close
\* event comes later.  Closing or closed sockets are left alone.
SocketClose(s, t) ==
    Log([s EXCEPT !.readyState[t] =
            IF Live(@) THEN "CLOSING" ELSE @], "wsClose", t)

\* ------------------------------------------------------------ packets
\* taClient.Self.guid, and the ids of the other users the server knows.
SelfId == "self"
UserIds == {"p1", "p2", "c1"}
\* A Models.Match: guid, associated_users, leader, the level_id of
\* selected_level (<<>>: none selected), selected_difficulty, and
\* start_time (0: not set; playSong sets a later time on every call).
NoLevel == <<>>
NoMatch == [guid |-> "none", users |-> <<>>, leader |-> "none",
            level |-> NoLevel, difficulty |-> 0, start |-> 0]

\* Of a Packet: which variant it holds (for a ForwardingPacket, the command
\* it wraps), its `from`, the forward_to ids, the match of a match event,
\* the user of a Connect request or UserLeft event, the level_id and
\* difficulty of a LoadSong or PlaySong command.
Packet(kind, to, m, user) ==
    [kind |-> kind, from |-> "none", to |-> to, match |-> m,
     user |-> user, level |-> NoLevel, difficulty |-> 0]

\* The transmit function.  options.sendToSocket, when given, takes the
\* data.  The default, this.ws?.send(data), does nothing without a handle,
\* puts the data on the transport the handle refers to now when that is
\* open, and otherwise transmits nothing: send() throws on a connecting
\* socket, and on a closing or closed one it throws (the package's
\* implementation) or drops the data (a browser's).
SendThrows(rs, nativeSocket) ==
    rs = "CONNECTING" \/ (rs \in {"CLOSING", "CLOSED"} /\ ~nativeSocket)

sendToSocket(s, p) ==
    LET handed == [s EXCEPT !.outbox = Append(@, p)]
    IN IF s.config.customSend \/ s.ws = 0
       THEN handed
       ELSE IF s.readyState[s.ws] = "OPEN"
            THEN Log(IF p.kind = "Connect"
                     THEN [handed EXCEPT !.connectReqs[s.ws] = @ + 1]
                     ELSE handed, p.kind, s.ws)
            ELSE [handed EXCEPT !.threw =
                     SendThrows(s.readyState[s.ws], s.config.nativeSocket)]

\* Mutant of sendPacket: the packet keeps the `from` it came with.
sendPacketKeepsFrom(s, p) == sendToSocket(s, p)

\* sendPacket: packet.from = Self.guid, then the transmit function.
sendPacket(s, p) == sendToSocket(s, [p EXCEPT !.from = SelfId])

sendEvent(s, p) == sendPacket(s, p)

ClientConnect(s) ==
    sendPacket(s, [Packet("Connect", {}, NoMatch, SelfId)
                      EXCEPT !.from = SelfId])

\* ------------------------------------------------------------ init()
\* new webSock(url) and the setTimeout of connectTimeout.
init(s) ==
    Log([s EXCEPT !.ws = s.nextId,
                  !.readyState[s.nextId] = "CONNECTING",
                  !.connectTimeout[s.nextId] = "armed",
                  !.nextId = @ + 1], "newSocket", s.nextId)

\* Mutant of TimeoutRetries: the handshakeTimeout > 0 test is lost.
TimeoutRetriesUnconfigured(rs, handshakeTimeout) == rs # "OPEN"

\* The condition of the connectTimeout callback, on the readyState of
\* this.ws ("NONE" when this.ws is null).
TimeoutRetries(rs, handshakeTimeout) == rs # "OPEN" /\ handshakeTimeout > 0

HandleState(s) == IF s.ws = 0 THEN "NONE" ELSE s.readyState[s.ws]

connectTimeoutCallback(s) ==
    IF TimeoutRetries(HandleState(s), s.config.handshakeTimeout)
    THEN LET closed == IF s.ws = 0 THEN s ELSE SocketClose(s, s.ws)
             nulled == Log([closed EXCEPT !.ws = 0], "discard", s.ws)
         IN init(nulled)
    ELSE s

\* ws.onopen
onopen(s, t) ==
    LET cleared == Log([s EXCEPT !.connectTimeout[t] =
                           IF @ = "armed" THEN "cleared" ELSE @],
                       "clearTimeout", t)
    IN ClientConnect(cleared)

\* Mutant of CompletesHandshake: the response type test is lost.
CompletesHandshakeAnyStatus(p, connected) ==
    p.connect /\ ~connected /\ p.selfGuid

\* Mutant of CompletesHandshake: the isConnected test is lost.
CompletesHandshakeAgain(p, connected) ==
    p.connect /\ p.success /\ p.selfGuid

\* handlePacket: the test that completes the handshake.
CompletesHandshake(p, connected) ==
    p.connect /\ p.success /\ ~connected /\ p.selfGuid

\* Mutant of handlePacket: the packet reaches the store before init.
handlePacketThenInit(s, p) ==
    LET handled == StoreHandlePacket(s)
    IN IF CompletesHandshake(p, s.isConnected)
       THEN StoreInit(handled) ELSE handled

handlePacket(s, p) ==
    StoreHandlePacket(IF CompletesHandshake(p, s.isConnected)
                      THEN StoreInit(s) ELSE s)

\* Mutant of onmessage: a frame that fails to decode is handled anyway.
onmessageUndecoded(s, t, f) ==
    IF f.binary THEN handlePacket(s, f) ELSE s

\* ws.onmessage
onmessage(s, t, f) ==
    IF f.binary
    THEN IF f.decodes
         THEN handlePacket(
                 IF f.connect /\ f.success /\ f.selfGuid
                 THEN [s EXCEPT !.handshakeDone = @ \cup {t}] ELSE s, f)
         ELSE s
    ELSE s

\* Mutant of Reconnects: the autoReconnect test is lost.
ReconnectsWhenDisabled(autoReconnect, attempts, maxRetries) ==
    attempts < maxRetries

\* ws.onclose: the test that schedules a reconnect.
Reconnects(autoReconnect, attempts, maxRetries) ==
    autoReconnect /\ attempts < maxRetries

ScheduleReconnect(s) ==
    LET timed == Log([s EXCEPT !.reconnectTimers = @ + 1,
                               !.scheduled = @ + 1], "setTimeout", 0)
    IN IF timed.reconnectAttempts # -1
       THEN [timed EXCEPT !.reconnectAttempts = @ + 1] ELSE timed

\* Mutant of onclose: the reconnect is scheduled before the reset.
oncloseScheduleFirst(s, t) ==
    LET counted == [s EXCEPT !.closeEvents = @ + 1]
    IN IF Reconnects(s.config.autoReconnect, s.reconnectAttempts,
                     s.config.autoReconnectMaxRetries)
       THEN StoreReset(ScheduleReconnect(counted)) ELSE StoreReset(counted)

onclose(s, t) ==
    LET counted == [s EXCEPT !.closeEvents = @ + 1]
        reset == StoreReset(counted)
    IN IF Reconnects(s.config.autoReconnect, s.reconnectAttempts,
                     s.config.autoReconnectMaxRetries)
       THEN ScheduleReconnect(reset) ELSE reset

\* close()
close(s) ==
    IF s.ws # 0 /\ s.readyState[s.ws] = "OPEN"
    THEN LET left == sendEvent(s, Packet("UserLeft", {}, NoMatch, SelfId))
         IN IF left.threw THEN left
            ELSE SocketClose([left EXCEPT !.userClosed = @ \cup {s.ws}],
                             s.ws)
    ELSE s

\* ------------------------------------------------------ session operations
\* The StateStore's known users (taClient.State?.users): the users of the
\* Connect response while connected, none before init and after reset.
Role(u) == IF u = "c1" THEN "Coordinator" ELSE "Player"
StateUsers(s) == IF s.isConnected THEN UserIds ELSE {}
Range(q) == {q[i] : i \in DOMAIN q}

\* getPlayers / getCoordinators / getWebsockets
getParticipants(s, m, role) ==
    {u \in StateUsers(s) : u \in Range(m.users) /\ Role(u) = role}
getPlayers(s, m) == getParticipants(s, m, "Player")

forwardPacket(s, ids, p) == sendPacket(s, [p EXCEPT !.to = ids])

\* uuidv4() of createMatch
NewGuid == "m-new"

createMatch(s, players) ==
    LET m == [NoMatch EXCEPT !.guid = NewGuid,
                             !.users = players \o <<SelfId>>,
                             !.leader = SelfId]
        sent == sendEvent(s, Packet("MatchCreated", {}, m, "none"))
    IN IF sent.threw THEN sent ELSE [sent EXCEPT !.returned = m.guid]

updateMatch(s, m) == sendEvent(s, Packet("MatchUpdated", {}, m, "none"))

closeMatch(s, m) == sendEvent(s, Packet("MatchDeleted", {}, m, "none"))

sendMessage(s, ids) ==
    forwardPacket(s, ids, Packet("ShowModal", {}, NoMatch, "none"))

returnToMenu(s, ids) ==
    forwardPacket(s, ids, Packet("ReturnToMenu", {}, NoMatch, "none"))

\* A 500 ms timer of loadSong (it reads the match when it fires) or of
\* playSong (it holds the player ids and the command built by the call).
Timer(kind, call, to, level, difficulty) ==
    [kind |-> kind, call |-> call, to |-> to, level |-> level,
     difficulty |-> difficulty]

loadSong(s, hash, difficulty) ==
    LET selected == [s EXCEPT !.match.level = <<"custom_level_", hash>>,
                              !.match.difficulty = difficulty,
                              !.nCalls = @ + 1]
        playerIds == getPlayers(selected, selected.match)
        sent == forwardPacket(selected, playerIds,
                    [Packet("LoadSong", {}, NoMatch, "none")
                        EXCEPT !.level = selected.match.level])
    IN IF sent.threw THEN sent
       ELSE [sent EXCEPT !.pending = @ \cup
                {Timer("loadSong", sent.nCalls, {}, NoLevel, 0)}]

loadSongTimer(s, tm) ==
    updateMatch([s EXCEPT !.pending = @ \ {tm}], s.match)

\* playSong, on a match that has a selected level.
playSong(s) ==
    LET playerIds == getPlayers(s, s.match)
        timed == [s EXCEPT !.match.start = @ + 1, !.nCalls = @ + 1]
        sent == updateMatch(timed, timed.match)
    IN IF sent.threw THEN sent
       ELSE [sent EXCEPT !.pending = @ \cup
                {Timer("playSong", sent.nCalls, playerIds,
                       s.match.level, s.match.difficulty)}]

playSongTimer(s, tm) ==
    forwardPacket([s EXCEPT !.pending = @ \ {tm}], tm.to,
        [Packet("PlaySong", {}, NoMatch, "none")
            EXCEPT !.level = tm.level, !.difficulty = tm.difficulty])

\* ------------------------------------------------------------ steps
\* The state after a callback, with the record of what ran.
Becomes(s, kind, t, f) ==
    /\ ws' = s.ws
    /\ readyState' = s.readyState
    /\ connectTimeout' = s.connectTimeout
    /\ reconnectTimers' = s.reconnectTimers
    /\ reconnectAttempts' = s.reconnectAttempts
    /\ isConnected' = s.isConnected
    /\ nextId' = s.nextId
    /\ connectReqs' = s.connectReqs
    /\ trace' = s.trace
    /\ closeEvents' = s.closeEvents
    /\ scheduled' = s.scheduled
    /\ handshakeDone' = s.handshakeDone
    /\ userClosed' = s.userClosed
    /\ outbox' = s.outbox
    /\ threw' = s.threw
    /\ returned' = s.returned
    /\ match' = s.match
    /\ pending' = s.pending
    /\ nCalls' = s.nCalls
    /\ event' = [kind |-> kind, t |-> t, frame |-> f,
                 wasConnected |-> isConnected, wsBefore |-> ws,
                 stateBefore |-> IF ws = 0 THEN "NONE" ELSE readyState[ws],
                 arg |-> s.arg]
    /\ UNCHANGED config

Blank ==
    [config |-> DefaultConfig, ws |-> 0,
     readyState |-> [t \in Transports |-> "NONE"],
     connectTimeout |-> [t \in Transports |-> "none"],
     reconnectTimers |-> 0, reconnectAttempts |-> -1, isConnected |-> FALSE,
     nextId |-> 1, connectReqs |-> [t \in Transports |-> 0], trace |-> <<>>,
     closeEvents |-> 0, scheduled |-> 0, handshakeDone |-> {},
     userClosed |-> {}, outbox |-> <<>>, threw |-> FALSE,
     returned |-> "none", match |-> NoMatch, pending |-> {}, nCalls |-> 0,
     arg |-> NoArg]

\* The constructor: loadConfig, then init() when autoInit is set.
constructor(c) ==
    LET fields == [Blank EXCEPT !.config = c]
    IN IF c.autoInit THEN init(fields) ELSE fields

\* The state after new TAWebsocket(...) with configuration c, the caller
\* holding the match m.
Constructed(c, m) ==
        LET s == constructor(c) IN
        /\ config = c
        /\ ws = s.ws
        /\ readyState = s.readyState
        /\ connectTimeout = s.connectTimeout
        /\ reconnectTimers = s.reconnectTimers
        /\ reconnectAttempts = s.reconnectAttempts
        /\ isConnected = s.isConnected
        /\ nextId = s.nextId
        /\ connectReqs = s.connectReqs
        /\ trace = s.trace
        /\ closeEvents = s.closeEvents
        /\ scheduled = s.scheduled
        /\ handshakeDone = s.handshakeDone
        /\ userClosed = s.userClosed
        /\ outbox = s.outbox
        /\ threw = s.threw
        /\ returned = s.returned
        /\ match = m
        /\ pending = s.pending
        /\ nCalls = s.nCalls
        /\ event = [kind |-> "construct", t |-> 0, frame |-> NoFrame,
                    wasConnected |-> FALSE, wsBefore |-> 0,
                    stateBefore |-> "NONE", arg |-> NoArg]

Init == \E c \in Configs : Constructed(c, NoMatch)

\* The transport connects: readyState OPEN, then onopen.
TransportOpen(t) ==
    /\ readyState[t] = "CONNECTING"
    /\ Becomes(onopen([Cur EXCEPT !.readyState[t] = "OPEN"], t),
               "open", t, NoFrame)

\* An open transport delivers a frame to onmessage.
TransportMessage(t, f) ==
    /\ readyState[t] = "OPEN"
    /\ Becomes(onmessage(Cur, t, f), "message", t, f)

\* The transport closes (connection refused or dropped, or the end of a
\* close() call): readyState CLOSED, then onclose.
TransportClose(t) ==
    /\ readyState[t] \in {"CONNECTING", "OPEN", "CLOSING"}
    /\ Becomes(onclose([Cur EXCEPT !.readyState[t] = "CLOSED"], t),
               "close", t, NoFrame)

\* The handshake timer armed by the init() that created t expires.
ConnectTimeoutFires(t) ==
    /\ connectTimeout[t] = "armed"
    /\ TimeoutRetries(IF ws = 0 THEN "NONE" ELSE readyState[ws],
                      config.handshakeTimeout) => nextId <= MaxTransports
    /\ Becomes(connectTimeoutCallback(
                   [Cur EXCEPT !.connectTimeout[t] = "fired"]),
               "timeout", t, NoFrame)

\* A reconnect timer expires: init().
ReconnectTimerFires ==
    /\ reconnectTimers > 0
    /\ nextId <= MaxTransports
    /\ Becomes(init([Cur EXCEPT !.reconnectTimers = @ - 1]),
               "reconnect", 0, NoFrame)

\* The caller calls close().
UserClose ==
    Becomes(close(Cur), "userClose", 0, NoFrame)

Next ==
    \/ \E t \in Transports : TransportOpen(t)
    \/ \E t \in Transports, f \in Frames : TransportMessage(t, f)
    \/ \E t \in Transports : TransportClose(t)
    \/ \E t \in Transports : ConnectTimeoutFires(t)
    \/ ReconnectTimerFires
    \/ UserClose

Spec == Init /\ [][Next]_vars

\* ------------------------------------------- the session operations' steps
\* What the caller passes in.
Senders == {"none", "p1"}
PlayerLists == {<<>>, <<"p1", "c1">>}
IdLists == {{}, {"p1", "p2"}}
Hashes == {"h1"}
Difficulties == {5}
\* The match the caller holds: with or without a song already selected.
CallerMatches ==
    {[NoMatch EXCEPT !.guid = "m1", !.users = u, !.leader = SelfId,
                     !.level = l] :
        u \in {<<"p1", "c1", SelfId>>, <<"p1", "p2">>},
        l \in {NoLevel, <<"custom_level_", "h0">>}}
\* The frames the server sends in these runs.
OpsFrames == {f \in Frames : HandshakeFrame(f)}

Called(s, kind, a) == Becomes([s EXCEPT !.arg = a], kind, 0, NoFrame)

\* sendPacket(packet) with a packet on which the caller has set `from`.
DoSendPacket(from) ==
    Called(sendPacket(Cur, [Packet("Command", {}, NoMatch, "none")
                               EXCEPT !.from = from]),
           "sendPacket", [NoArg EXCEPT !.from = from])

DoSendEvent ==
    Called(sendEvent(Cur, Packet("Event", {}, NoMatch, "none")),
           "sendEvent", NoArg)

DoForwardPacket(ids) ==
    Called(forwardPacket(Cur, ids, Packet("Command", {}, NoMatch, "none")),
           "forwardPacket", [NoArg EXCEPT !.ids = ids])

DoCreateMatch(players) ==
    Called(createMatch(Cur, players), "createMatch",
           [NoArg EXCEPT !.players = players])

DoUpdateMatch == Called(updateMatch(Cur, match), "updateMatch", NoArg)

DoCloseMatch == Called(closeMatch(Cur, match), "closeMatch", NoArg)

DoSendMessage(ids) ==
    Called(sendMessage(Cur, ids), "sendMessage", [NoArg EXCEPT !.ids = ids])

DoReturnToMenu(ids) ==
    Called(returnToMenu(Cur, ids), "returnToMenu",
           [NoArg EXCEPT !.ids = ids])

DoLoadSong(hash, difficulty) ==
    /\ nCalls < MaxCalls
    /\ Called(loadSong(Cur, hash, difficulty), "loadSong", NoArg)

DoPlaySong ==
    /\ nCalls < MaxCalls
    /\ match.level # NoLevel
    /\ Called(playSong(Cur), "playSong", NoArg)

LoadSongTimerFires(tm) ==
    /\ tm.kind = "loadSong"
    /\ Called(loadSongTimer(Cur, tm), "loadSongTimer", NoArg)

PlaySongTimerFires(tm) ==
    /\ tm.kind = "playSong"
    /\ Called(playSongTimer(Cur, tm), "playSongTimer",
              [NoArg EXCEPT !.ids = tm.to])

\* The configurations the session operations are explored under: one
\* transport (no reconnect, no handshake timeout), opened at construction
\* or never, with the default or a custom transmit function.
OpsConfigs ==
    [autoReconnect : {FALSE},
     autoReconnectMaxRetries : {-1},
     handshakeTimeout : {0},
     autoInit : BOOLEAN,
     customSend : BOOLEAN,
     nativeSocket : BOOLEAN]

InitOps == \E c \in OpsConfigs, m \in CallerMatches : Constructed(c, m)

NextOps ==
    \/ \E t \in Transports : TransportOpen(t)
    \/ \E t \in Transports, f \in OpsFrames : TransportMessage(t, f)
    \/ \E t \in Transports : TransportClose(t)
    \/ \E t \in Transports : ConnectTimeoutFires(t)
    \/ UserClose
    \/ \E from \in Senders : DoSendPacket(from)
    \/ DoSendEvent
    \/ \E ids \in IdLists : DoForwardPacket(ids)
    \/ \E players \in PlayerLists : DoCreateMatch(players)
    \/ DoUpdateMatch
    \/ DoCloseMatch
    \/ \E ids \in IdLists : DoSendMessage(ids)
    \/ \E ids \in IdLists : DoReturnToMenu(ids)
    \/ \E h \in Hashes, d \in Difficulties : DoLoadSong(h, d)
    \/ DoPlaySong
    \/ \E tm \in pending : LoadSongTimerFires(tm)
    \/ \E tm \in pending : PlaySongTimerFires(tm)

SpecOps == InitOps /\ [][NextOps]_vars

TypeOK ==
    /\ config \in Configs
    /\ ws \in 0..MaxTransports
    /\ readyState \in [Transports ->
                          {"NONE", "CONNECTING", "OPEN", "CLOSING", "CLOSED"}]
    /\ connectTimeout \in [Transports -> {"none", "armed", "cleared", "fired"}]
    /\ reconnectTimers \in Nat
    /\ reconnectAttempts \in Int
    /\ isConnected \in BOOLEAN
    /\ nextId \in 1..(MaxTransports + 1)
    /\ handshakeDone \subseteq Transports
    /\ userClosed \subseteq Transports

\* ------------------------------------------------------------ properties
Ops(tr) == [i \in DOMAIN tr |-> tr[i].op]
Did(op) == \E i \in DOMAIN trace : trace[i].op = op
LiveSet == {t \in Transports : Live(readyState[t])}
Created == {t \in Transports : readyState[t] # "NONE"}

\* C1: at most one transport is live (connecting or open) at a time, and
\* while connected the handle refers to a transport that has not closed and
\* no other transport is live.
C1_OneLiveTransport ==
    /\ Cardinality(LiveSet) <= 1
    /\ isConnected =>
          /\ ws # 0
          /\ readyState[ws] \in {"OPEN", "CLOSING"}
          /\ LiveSet \subseteq {ws}

\* C2: with autoReconnect and autoReconnectMaxRetries = N >= 0, at most N+1
\* reconnect timers are scheduled over the whole run.
C2_ReconnectsBounded ==
    (config.autoReconnect /\ config.autoReconnectMaxRetries >= 0)
        => scheduled <= config.autoReconnectMaxRetries + 1

\* C3: under the default configuration every transport-close event
\* schedules a reconnect.
C3_DefaultAlwaysReconnects ==
    (config = DefaultConfig /\ event.kind = "close") => Did("setTimeout")

\* C4: the close event of a transport closed by close() schedules no
\* reconnect timer.
C4_UserCloseTerminal ==
    (event.kind = "close" /\ event.t \in userClosed) => ~Did("setTimeout")

\* C5: connected holds exactly when the transport the handle refers to has
\* delivered a Success Connect response with a self id and has not closed.
C5_ConnectedIffHandshake ==
    isConnected <=>
        (ws # 0 /\ ws \in handshakeDone /\ readyState[ws] # "CLOSED")

\* C6: an open, message or close event of a superseded transport (one the
\* handle no longer refers to) does not reset or initialise the StateStore,
\* leaves connected as it was, sends no Connect request and schedules no
\* reconnect.
C6_StaleCallbacksIgnored ==
    (event.kind \in {"open", "message", "close"} /\ event.t # event.wsBefore)
        => /\ ~Did("reset") /\ ~Did("init")
           /\ ~Did("Connect") /\ ~Did("setTimeout")
           /\ isConnected = event.wasConnected

\* C7: a reconnect timer is only ever scheduled after StateStore.reset()
\* ran in the same close callback, with connected false at that moment.
C7_ResetBeforeReconnect ==
    \A i \in DOMAIN trace :
        trace[i].op = "setTimeout"
            => /\ ~trace[i].conn
               /\ \E j \in 1..(i - 1) : trace[j].op = "reset"

\* A close event arrived while connected and scheduled a reconnect.
C7_Witness ==
    event.kind = "close" /\ event.wasConnected /\ Did("setTimeout")

\* C8: with autoReconnect = false no reconnect timer is ever scheduled.
C8_NoReconnectWhenDisabled ==
    ~config.autoReconnect => (scheduled = 0 /\ reconnectTimers = 0)

\* Two transports closed with autoReconnect off and retries allowed.
C8_Witness ==
    /\ ~config.autoReconnect
    /\ config.autoReconnectMaxRetries >= 0
    /\ closeEvents >= 2

\* C9: a Success Connect response with a self id initialises the StateStore
\* and connects when it arrives while not connected; while connected it is
\* only handed to StateStore.handlePacket.
C9_HandshakeOnce ==
    (event.kind = "message" /\ HandshakeFrame(event.frame))
        => /\ isConnected
           /\ Ops(trace) = IF event.wasConnected
                           THEN <<"handlePacket">>
                           ELSE <<"init", "handlePacket">>

\* A second handshake response arrived on a connected client.
C9_Witness ==
    /\ event.kind = "message" /\ HandshakeFrame(event.frame)
    /\ event.wasConnected
    /\ Ops(trace) = <<"handlePacket">>

\* C10: when a handshake timer expires with handshakeTimeout > 0 and the
\* transport of the handle not open, that transport is closed, the handle
\* discarded and a new transport opened at once, with no reconnect timer;
\* with handshakeTimeout = 0 or the transport open nothing happens.
C10_HandshakeTimeout ==
    event.kind = "timeout" =>
        IF config.handshakeTimeout > 0 /\ event.stateBefore # "OPEN"
        THEN /\ event.wsBefore # 0
             /\ trace = <<[op |-> "wsClose", t |-> event.wsBefore,
                           conn |-> isConnected],
                          [op |-> "discard", t |-> event.wsBefore,
                           conn |-> isConnected],
                          [op |-> "newSocket", t |-> ws,
                           conn |-> isConnected]>>
             /\ ~Live(readyState[event.wsBefore])
             /\ ws # event.wsBefore
             /\ readyState[ws] = "CONNECTING"
             /\ connectTimeout[ws] = "armed"
        ELSE /\ trace = <<>>
             /\ ws = event.wsBefore
             /\ readyState[ws] = event.stateBefore

\* A handshake timer expired on a connecting transport and replaced it.
C10_Witness ==
    /\ event.kind = "timeout"
    /\ config.handshakeTimeout > 0
    /\ event.stateBefore = "CONNECTING"
    /\ readyState[event.wsBefore] = "CLOSING"
    /\ ws = event.wsBefore + 1

ConnectPacket ==
    [kind |-> "Connect", from |-> SelfId, to |-> {}, match |-> NoMatch,
     user |-> SelfId, level |-> NoLevel, difficulty |-> 0]
DecodedFrame(f) == f.binary /\ f.decodes
Count(op) == Cardinality({i \in DOMAIN trace : trace[i].op = op})

\* C11: after a transport-open event the handshake timer of that transport
\* is no longer armed and exactly one Connect request, carrying Self, has
\* been transmitted on that transport.
C11_OpenSendsConnect ==
    event.kind = "open" =>
        /\ connectTimeout[event.t] # "armed"
        /\ outbox = <<ConnectPacket>>
        /\ Count("Connect") = 1
        /\ \A i \in DOMAIN trace :
              trace[i].op = "Connect" => trace[i].t = event.t
        /\ connectReqs[event.t] = 1

\* C12: close() hands a UserLeft event to the transmit function only when
\* the client is connected, and then before the transport is closed.
C12_UserLeftOnlyConnected ==
    event.kind = "userClose" =>
        /\ ~event.wasConnected => outbox = <<>>
        /\ outbox # <<>> => Ops(trace) = <<"UserLeft", "wsClose">>

\* C13: a Connect response that is not Success, or has no self id, is handed
\* to StateStore.handlePacket and nothing else happens: no init, connected
\* as before, nothing sent, closed or scheduled.
C13_RejectedConnect ==
    (/\ event.kind = "message" /\ DecodedFrame(event.frame)
     /\ event.frame.connect
     /\ ~(event.frame.success /\ event.frame.selfGuid))
        => /\ Ops(trace) = <<"handlePacket">>
           /\ isConnected = event.wasConnected
           /\ outbox = <<>>

\* A rejected Connect response arrived on an open transport before any
\* handshake and left the client not connected.
C13_Witness ==
    /\ event.kind = "message" /\ DecodedFrame(event.frame)
    /\ event.frame.connect /\ ~event.frame.success /\ event.frame.selfGuid
    /\ ~event.wasConnected /\ ~isConnected
    /\ readyState[event.t] = "OPEN"

\* C14: a binary frame that fails to decode changes nothing: the transport
\* stays open, connected is as before, the store and the transmit function
\* are not called, no timer is set, and the transport can deliver its next
\* frame.
C14_UndecodableDropped ==
    (/\ event.kind = "message"
     /\ event.frame.binary /\ ~event.frame.decodes)
        => /\ trace = <<>>
           /\ outbox = <<>>
           /\ isConnected = event.wasConnected
           /\ readyState[event.t] = "OPEN"
           /\ \A f \in Frames : ENABLED TransportMessage(event.t, f)

\* An undecodable frame was dropped on a connected client.
C14_Witness ==
    /\ event.kind = "message"
    /\ event.frame.binary /\ ~event.frame.decodes
    /\ event.wasConnected /\ isConnected
    /\ readyState[event.t] = "OPEN"

\* C16: a decoded packet is handed to StateStore.handlePacket exactly once
\* by its frame's callback, and StateStore.init, when the packet completes
\* the handshake, comes before that.
C16_HandedOnceInitFirst ==
    (event.kind = "message" /\ DecodedFrame(event.frame))
        => /\ Count("handlePacket") = 1
           /\ \A i, j \in DOMAIN trace :
                 (trace[i].op = "init" /\ trace[j].op = "handlePacket")
                     => i < j
           /\ (HandshakeFrame(event.frame) /\ ~event.wasConnected)
                 => Count("init") = 1

\* A packet completed the handshake: init, then handlePacket.
C16_Witness ==
    /\ event.kind = "message" /\ HandshakeFrame(event.frame)
    /\ ~event.wasConnected
    /\ Len(trace) = 2
    /\ trace[1].op = "init" /\ trace[2].op = "handlePacket"

\* C20: a handshake timer that expires after its own transport has closed
\* and been replaced closes nothing and opens nothing.
C20_TimerOwnTransportOnly ==
    (/\ event.kind = "timeout"
     /\ event.t # event.wsBefore
     /\ readyState[event.t] = "CLOSED")
        => trace = <<>>

\* The Player-role users of the caller's match that the StateStore knows,
\* given whether the client is connected.
PlayersKnown(connected) ==
    {u \in UserIds :
        connected /\ Role(u) = "Player"
        /\ \E i \in DOMAIN match.users : match.users[i] = u}

\* C15: every packet handed to the transmit function has Self's id as its
\* sender.
C15_SenderIsSelf ==
    \A i \in DOMAIN outbox : outbox[i].from = SelfId

\* sendPacket was called with a packet whose sender the caller had set to
\* another user's id, and the packet went out with Self's id.
C15_Witness ==
    /\ event.kind = "sendPacket"
    /\ event.arg.from = "p1"
    /\ Len(outbox) = 1
    /\ outbox[1].from = SelfId

\* C17: a loadSong call hands exactly one LoadSong command to the transmit
\* function, addressed to the match's players known to the StateStore, and
\* leaves its timer pending; the timer then hands over exactly one
\* MatchUpdated event with the match.
C17_LoadSongThenUpdate ==
    /\ event.kind = "loadSong" =>
          /\ Len(outbox) = 1
          /\ outbox[1].kind = "LoadSong"
          /\ outbox[1].to = PlayersKnown(event.wasConnected)
          /\ \E tm \in pending : tm.kind = "loadSong" /\ tm.call = nCalls
    /\ event.kind = "loadSongTimer" =>
          /\ Len(outbox) = 1
          /\ outbox[1].kind = "MatchUpdated"
          /\ outbox[1].match = match

\* C18: the PlaySong command forwarded by playSong's timer is addressed to
\* the match's players at the moment it is forwarded.
C18_PlaySongRecipients ==
    event.kind = "playSongTimer" =>
        /\ Len(outbox) = 1
        /\ outbox[1].kind = "PlaySong"
        /\ outbox[1].to = PlayersKnown(isConnected)

\* C19: createMatch hands exactly one MatchCreated event to the transmit
\* function, its match having the given players and Self as associated
\* users and Self as leader, and returns that match's guid.
C19_CreateMatchReturnsId ==
    event.kind = "createMatch" =>
        /\ Len(outbox) = 1
        /\ outbox[1].kind = "MatchCreated"
        /\ outbox[1].match.users = event.arg.players \o <<SelfId>>
        /\ outbox[1].match.leader = SelfId
        /\ returned = outbox[1].match.guid
====
